---- MODULE Spec2Model ----
(***************************************************************************)
(* Russian text analysis (aelita_rdd.py): clean_text, the suffix stemmer,  *)
(* the word count built with map/reduceByKey, the top/bottom rankings      *)
(* built with takeOrdered, and the driver RussianTextAnalyzer.analyze_text.*)
(*                                                                         *)
(* A character is its Unicode code point, a string is a sequence of code   *)
(* points: 1072..1103 are the lowercase Cyrillic letters a..ya, 1105 is    *)
(* yo, 1040..1071 the uppercase letters, 1025 uppercase yo, 32 the space.  *)
(***************************************************************************)
EXTENDS Integers, Sequences, FiniteSets, TLC

VARIABLES
    pc,                     \* position of the driver, or of the call under study
    \* clean_text(line, stop_words)
    line, stop_words, cleaned_words,
    \* simple_russian_stemmer(word)
    word, stemmed, restemmed,
    \* the ranker: takeOrdered over a (word, count) table
    table, K, top_k, bottom_k,
    \* analyze_text
    file_exists,            \* os.path.exists(file_path)
    text_rdd,               \* the file's lines, one sequence per partition
    cleaned_words_rdd,      \* the cleaned words, one sequence per partition
    stemmed_words_rdd,      \* the stemmed words, one sequence per partition
    pending,                \* partitions reduceByKey has not merged yet
    total_words, unique_words, stemmed_unique_words,
    wordcount_rdd, stemmed_wordcount_rdd,
    top_50, bottom_50, top_50_stemmed, bottom_50_stemmed,
    reduction,              \* <<numerator, denominator>> of the percentage
    out                     \* what was printed, in order

cleanVars == <<line, stop_words, cleaned_words>>
stemVars  == <<word, stemmed, restemmed>>
rankVars  == <<table, K, top_k, bottom_k>>
runVars   == <<file_exists, text_rdd, cleaned_words_rdd, stemmed_words_rdd,
               pending, total_words, unique_words, stemmed_unique_words,
               wordcount_rdd, stemmed_wordcount_rdd, top_50, bottom_50,
               top_50_stemmed, bottom_50_stemmed, reduction, out>>
vars == <<pc, cleanVars, stemVars, rankVars, runVars>>

----------------------------------------------------------------------------
(* Sequence helpers *)

Range(s) == {s[i] : i \in 1..Len(s)}

Min(a, b) == IF a < b THEN a ELSE b

\* All sequences over S of length at most n.
SeqsUpTo(S, n) == UNION {[1..k -> S] : k \in 0..n}

RECURSIVE Flatten(_)
Flatten(ss) == IF ss = <<>> THEN <<>> ELSE Head(ss) \o Flatten(Tail(ss))

\* Python's comparison of two strings, and of two tuples of numbers: by
\* element from the left, a proper prefix first.
RECURSIVE StrLess(_, _)
StrLess(a, b) ==
    IF b = <<>> THEN FALSE
    ELSE IF a = <<>> THEN TRUE
    ELSE IF Head(a) # Head(b) THEN Head(a) < Head(b)
    ELSE StrLess(Tail(a), Tail(b))

----------------------------------------------------------------------------
(* Characters *)

\* str.isspace / the regular expression class \s
IsSpace(c) == c \in {9, 10, 11, 12, 13, 28, 29, 30, 31, 32, 133, 160}

\* the regular expression class [a-ya yo] of lowercase Cyrillic letters
IsCyrLower(c) == c \in 1072..1103 \/ c = 1105

\* str.lower on one character
LowerChar(c) ==
    IF c \in 65..90 THEN c + 32
    ELSE IF c \in 1040..1071 THEN c + 32
    ELSE IF c \in 1024..1039 THEN c + 80
    ELSE c

Lower(s) == [i \in 1..Len(s) |-> LowerChar(s[i])]

RECURSIVE LStrip(_)
LStrip(s) == IF s # <<>> /\ IsSpace(Head(s)) THEN LStrip(Tail(s)) ELSE s

RECURSIVE RStrip(_)
RStrip(s) ==
    IF s # <<>> /\ IsSpace(s[Len(s)]) THEN RStrip(SubSeq(s, 1, Len(s) - 1)) ELSE s

\* str.strip
Strip(s) == RStrip(LStrip(s))

\* re.sub(r'[^a-ya yo\s]', ' ', line)
SubNonCyrillic(s) ==
    [i \in 1..Len(s) |-> IF IsCyrLower(s[i]) \/ IsSpace(s[i]) THEN s[i] ELSE 32]

\* re.sub(r'\s+', ' ', line)
RECURSIVE CollapseSpaces(_)
CollapseSpaces(s) ==
    IF s = <<>> THEN <<>>
    ELSE IF IsSpace(Head(s)) THEN <<32>> \o CollapseSpaces(LStrip(s))
    ELSE <<Head(s)>> \o CollapseSpaces(Tail(s))

\* str.split(): the maximal runs of non-space characters, in order
RECURSIVE SplitFrom(_, _)
SplitFrom(s, cur) ==
    IF s = <<>> THEN (IF cur = <<>> THEN <<>> ELSE <<cur>>)
    ELSE IF IsSpace(Head(s))
         THEN (IF cur = <<>> THEN <<>> ELSE <<cur>>) \o SplitFrom(Tail(s), <<>>)
         ELSE SplitFrom(Tail(s), Append(cur, Head(s)))

Split(s) == SplitFrom(s, <<>>)

\* re.match(r'^[a-ya yo]+$', word)
IsRussianWord(w) == w # <<>> /\ \A i \in 1..Len(w) : IsCyrLower(w[i])

----------------------------------------------------------------------------
(* load_russian_stopwords *)

load_russian_stopwords ==
  {
    <<1080>>, <<1074>>, <<1074,1086>>, <<1085,1077>>,
    <<1095,1090,1086>>, <<1086,1085>>, <<1085,1072>>, <<1103>>,
    <<1089>>, <<1089,1086>>, <<1082,1072,1082>>, <<1072>>,
    <<1090,1086>>, <<1074,1089,1077>>, <<1086,1085,1072>>, <<1090,1072,1082>>,
    <<1077,1075,1086>>, <<1085,1086>>, <<1076,1072>>, <<1090,1099>>,
    <<1082>>, <<1091>>, <<1078,1077>>, <<1074,1099>>,
    <<1079,1072>>, <<1073,1099>>, <<1087,1086>>, <<1090,1086,1083,1100,1082,1086>>,
    <<1077,1077>>, <<1084,1085,1077>>, <<1073,1099,1083,1086>>, <<1074,1086,1090>>,
    <<1086,1090>>, <<1084,1077,1085,1103>>, <<1077,1097,1077>>, <<1085,1077,1090>>,
    <<1086>>, <<1080,1079>>, <<1077,1084,1091>>, <<1090,1077,1087,1077,1088,1100>>,
    <<1082,1086,1075,1076,1072>>, <<1076,1072,1078,1077>>, <<1085,1091>>, <<1074,1076,1088,1091,1075>>,
    <<1083,1080>>, <<1077,1089,1083,1080>>, <<1091,1078,1077>>, <<1080,1083,1080>>,
    <<1085,1080>>, <<1073,1099,1090,1100>>, <<1073,1099,1083>>, <<1085,1077,1075,1086>>,
    <<1076,1086>>, <<1074,1072,1089>>, <<1085,1080,1073,1091,1076,1100>>, <<1086,1087,1103,1090,1100>>,
    <<1091,1078>>, <<1074,1072,1084>>, <<1074,1077,1076,1100>>, <<1090,1072,1084>>,
    <<1087,1086,1090,1086,1084>>, <<1089,1077,1073,1103>>, <<1085,1080,1095,1077,1075,1086>>, <<1077,1081>>,
    <<1084,1086,1078,1077,1090>>, <<1086,1085,1080>>, <<1090,1091,1090>>, <<1075,1076,1077>>,
    <<1077,1089,1090,1100>>, <<1085,1072,1076,1086>>, <<1085,1077,1081>>, <<1076,1083,1103>>,
    <<1084,1099>>, <<1090,1077,1073,1103>>, <<1080,1093>>, <<1095,1077,1084>>,
    <<1073,1099,1083,1072>>, <<1089,1072,1084>>, <<1095,1090,1086,1073>>, <<1073,1077,1079>>,
    <<1073,1091,1076,1090,1086>>, <<1095,1077,1075,1086>>, <<1088,1072,1079>>, <<1090,1086,1078,1077>>,
    <<1089,1077,1073,1077>>, <<1087,1086,1076>>, <<1073,1091,1076,1077,1090>>, <<1078>>,
    <<1090,1086,1075,1076,1072>>, <<1082,1090,1086>>, <<1101,1090,1086,1090>>, <<1090,1086,1075,1086>>,
    <<1087,1086,1090,1086,1084,1091>>, <<1101,1090,1086,1075,1086>>, <<1082,1072,1082,1086,1081>>, <<1089,1086,1074,1089,1077,1084>>,
    <<1085,1080,1084>>, <<1079,1076,1077,1089,1100>>, <<1101,1090,1086,1084>>, <<1086,1076,1080,1085>>,
    <<1087,1086,1095,1090,1080>>, <<1084,1086,1081>>, <<1090,1077,1084>>, <<1095,1090,1086,1073,1099>>,
    <<1085,1077,1077>>, <<1089,1077,1081,1095,1072,1089>>, <<1073,1099,1083,1080>>, <<1082,1091,1076,1072>>,
    <<1079,1072,1095,1077,1084>>, <<1074,1089,1077,1093>>, <<1085,1080,1082,1086,1075,1076,1072>>, <<1084,1086,1078,1085,1086>>,
    <<1087,1088,1080>>, <<1085,1072,1082,1086,1085,1077,1094>>, <<1076,1074,1072>>, <<1086,1073>>,
    <<1076,1088,1091,1075,1086,1081>>, <<1093,1086,1090,1100>>, <<1087,1086,1089,1083,1077>>, <<1085,1072,1076>>,
    <<1073,1086,1083,1100,1096,1077>>, <<1090,1086,1090>>, <<1095,1077,1088,1077,1079>>, <<1101,1090,1080>>,
    <<1085,1072,1089>>, <<1087,1088,1086>>, <<1074,1089,1077,1075,1086>>, <<1085,1080,1093>>,
    <<1082,1072,1082,1072,1103>>, <<1084,1085,1086,1075,1086>>, <<1088,1072,1079,1074,1077>>, <<1090,1088,1080>>,
    <<1101,1090,1091>>, <<1084,1086,1103>>, <<1074,1087,1088,1086,1095,1077,1084>>, <<1093,1086,1088,1086,1096,1086>>,
    <<1089,1074,1086,1102>>, <<1101,1090,1086,1081>>, <<1087,1077,1088,1077,1076>>, <<1080,1085,1086,1075,1076,1072>>,
    <<1083,1091,1095,1096,1077>>, <<1095,1091,1090,1100>>, <<1090,1086,1084>>, <<1085,1077,1083,1100,1079,1103>>,
    <<1090,1072,1082,1086,1081>>, <<1080,1084>>, <<1073,1086,1083,1077,1077>>, <<1074,1089,1077,1075,1076,1072>>,
    <<1082,1086,1085,1077,1095,1085,1086>>, <<1074,1089,1102>>, <<1084,1077,1078,1076,1091>>, <<1101,1090,1086>>,
    <<1074,1086,1090>>, <<1074,1076,1088,1091,1075>>, <<1082,1072,1082>>, <<1087,1086,1076>>,
    <<1085,1072,1076>>, <<1087,1088,1080>>, <<1087,1086,1089,1083,1077>>, <<1087,1077,1088,1077,1076>>,
    <<1095,1077,1088,1077,1079>>, <<1080,1079>>, <<1086,1090>>, <<1076,1086>>,
    <<1076,1083,1103>>, <<1079,1072>>, <<1082>>, <<1091>>
  }

----------------------------------------------------------------------------
(* clean_text *)

\* KeepWord without the stopword test
KeepWordIgnoringStops(w, stops) ==
    Len(Strip(w)) > 2 /\ IsRussianWord(Strip(w))

\* the filter of the loop over the split words
KeepWord(w, stops) ==
    Len(Strip(w)) > 2 /\ Strip(w) \notin stops /\ IsRussianWord(Strip(w))

clean_text(l, stops) ==
    IF Strip(l) = <<>> THEN <<>>
    ELSE LET lowered   == Strip(Lower(l))
             cyr       == SubNonCyrillic(lowered)
             collapsed == CollapseSpaces(cyr)
             tokens    == Split(collapsed)
             words     == [i \in 1..Len(tokens) |-> Strip(tokens[i])]
         IN  SelectSeq(words, LAMBDA w : KeepWord(w, stops))

----------------------------------------------------------------------------
(* simple_russian_stemmer *)

endings ==
  <<
    <<1086,1089,1090,1100>>, <<1072,1090,1100>>, <<1103,1090,1100>>, <<1080,1090,1100>>, <<1077,1090,1100>>,
    <<1091,1090,1100>>, <<1102,1090,1100>>, <<1072,1090>>, <<1103,1090>>, <<1080,1090>>,
    <<1077,1090>>, <<1091,1090>>, <<1102,1090>>, <<1099,1081>>, <<1080,1081>>,
    <<1072,1103>>, <<1103,1103>>, <<1086,1077>>, <<1077,1077>>, <<1099,1077>>,
    <<1080,1077>>, <<1086,1074>>, <<1077,1074>>, <<1072,1084>>, <<1103,1084>>,
    <<1072,1084,1080>>, <<1103,1084,1080>>, <<1072,1093>>, <<1103,1093>>, <<1086,1084>>,
    <<1077,1084>>, <<1091>>, <<1102>>, <<1077,1084>>, <<1080,1084>>,
    <<1096,1100>>, <<1090,1100>>, <<1090,1080>>, <<1083>>, <<1083,1072>>,
    <<1083,1086>>, <<1083,1080>>, <<1085>>, <<1085,1072>>, <<1085,1086>>,
    <<1085,1099>>, <<1090,1100>>, <<1089,1103>>, <<1077,1081>>, <<1086,1081>>
  >>

\* sorted(endings, key=len, reverse=True): stable, so equal lengths keep
\* the order of the list
RECURSIVE SortedByLenFrom(_, _)
SortedByLenFrom(s, n) ==
    IF n = 0 THEN SelectSeq(s, LAMBDA e : Len(e) = 0)
    ELSE SelectSeq(s, LAMBDA e : Len(e) = n) \o SortedByLenFrom(s, n - 1)

MaxLenOf(s) == IF s = <<>> THEN 0
               ELSE CHOOSE n \in {Len(e) : e \in Range(s)} :
                        \A e \in Range(s) : Len(e) <= n

\* the endings sorted shortest first
RECURSIVE Reverse(_)
Reverse(s) == IF s = <<>> THEN <<>> ELSE Append(Reverse(Tail(s)), Head(s))

ShortestFirstEndings == Reverse(SortedByLenFrom(endings, MaxLenOf(endings)))

SortedEndings == SortedByLenFrom(endings, MaxLenOf(endings))

\* str.endswith
EndsWith(w, e) ==
    Len(e) <= Len(w) /\ SubSeq(w, Len(w) - Len(e) + 1, Len(w)) = e

\* the condition of the loop body
EndingApplies(w, e) == EndsWith(w, e) /\ Len(w) > Len(e) + 2

\* word[len(ending):], the ending cut from the wrong side
TruncateFront(w, e) == SubSeq(w, Len(e) + 1, Len(w))

\* word[:-len(ending)]
Truncate(w, e) == SubSeq(w, 1, Len(w) - Len(e))

RECURSIVE StemWith(_, _)
StemWith(w, es) ==
    IF es = <<>> THEN w
    ELSE IF EndingApplies(w, Head(es)) THEN Truncate(w, Head(es))
    ELSE StemWith(w, Tail(es))

simple_russian_stemmer(w) == StemWith(w, SortedEndings)

----------------------------------------------------------------------------
(* The frequency table: map(lambda word: (word, 1)).reduceByKey(a + b)    *)
(* An RDD of pairs is the sequence of its elements <<word, count>>, in the *)
(* order the engine holds them.                                            *)

\* rdd.map(lambda word: (word, 1))
MapToPairs(ws) == [i \in 1..Len(ws) |-> <<ws[i], 1>>]

\* lambda a, b: a + b
AddCounts(a, b) == a + b

\* a new key is appended whether or not the table holds it already
MergeValueNoLookup(t, kv) == Append(t, kv)

\* one pair merged into a table: the count of a key already present is
\* combined with the reducer, a new key is added after the others
MergeValue(t, kv) ==
    IF \E i \in 1..Len(t) : t[i][1] = kv[1]
    THEN [i \in 1..Len(t) |->
            IF t[i][1] = kv[1] THEN <<t[i][1], AddCounts(t[i][2], kv[2])>> ELSE t[i]]
    ELSE Append(t, kv)

RECURSIVE MergeAll(_, _)
MergeAll(t, kvs) ==
    IF kvs = <<>> THEN t ELSE MergeAll(MergeValue(t, Head(kvs)), Tail(kvs))

\* reduceByKey on one partition: its pairs are combined locally, and the
\* partition's partial counts are merged into the table built so far
ReducePartition(t, part) == MergeAll(t, MergeAll(<<>>, MapToPairs(part)))

----------------------------------------------------------------------------
(* The rankings: takeOrdered(num, key)                                     *)

\* A key function is a function on the elements of the RDD; its values are
\* tuples of numbers: <<-count>>, the word, or <<count>> \o word for the
\* pair (count, word).

\* x is placed before the first element whose key is greater than its own
InsertOrdered(sorted, x, key) ==
    LET later == {i \in 1..Len(sorted) : StrLess(key[x], key[sorted[i]])}
        k     == IF later = {} THEN Len(sorted) + 1
                 ELSE CHOOSE i \in later : \A j \in later : i <= j
    IN  SubSeq(sorted, 1, k - 1) \o <<x>> \o SubSeq(sorted, k, Len(sorted))

\* sorted(rdd, key=key): stable, elements with equal keys keep their order
SortedBy(rdd, key) ==
    LET upTo[n \in 0..Len(rdd)] ==
            IF n = 0 THEN <<>> ELSE InsertOrdered(upTo[n - 1], rdd[n], key)
    IN  upTo[Len(rdd)]

\* rdd.takeOrdered(num, key): the num smallest elements by key, in order
TakeOrdered(num, rdd, key) ==
    SubSeq(SortedBy(rdd, key), 1, Min(num, Len(rdd)))

\* key=lambda x: x[1], the sign of the count forgotten
ByCount(rdd) == [x \in Range(rdd) |-> <<x[2]>>]

\* key=lambda x: -x[1]
ByNegatedCount(rdd) == [x \in Range(rdd) |-> <<0 - x[2]>>]

\* key=lambda x: x[0]
ByWord(rdd) == [x \in Range(rdd) |-> x[1]]

\* key=lambda x: (x[1], x[0])
ByCountThenWord(rdd) == [x \in Range(rdd) |-> <<x[2]>> \o x[1]]

\* wordcount_rdd.takeOrdered(num, key=lambda x: -x[1])
TopOf(num, rdd) == TakeOrdered(num, rdd, ByNegatedCount(rdd))

\* wordcount_rdd.filter(lambda x: x[1] == 1)
LeastCommon(rdd) == SelectSeq(rdd, LAMBDA x : x[2] = 1)

\* the least frequent entries taken whether or not some word occurs once
BottomOfAlwaysByCount(num, rdd) == TakeOrdered(num, rdd, ByCountThenWord(rdd))

\* the words that occur once by word when there are any, otherwise the
\* least frequent entries by (count, word)
BottomOf(num, rdd) ==
    IF Len(LeastCommon(rdd)) > 0
    THEN TakeOrdered(num, LeastCommon(rdd), ByWord(LeastCommon(rdd)))
    ELSE TakeOrdered(num, rdd, ByCountThenWord(rdd))

----------------------------------------------------------------------------
(* Values of the variables a specification does not use *)

CleanIdle == line = <<>> /\ stop_words = {} /\ cleaned_words = <<>>

StemIdle == word = <<>> /\ stemmed = <<>> /\ restemmed = <<>>

RankIdle == table = <<>> /\ K = 0 /\ top_k = <<>> /\ bottom_k = <<>>

\* Before analyze_text has assigned them its locals are unbound: the empty
\* sequence stands for an unbound collection, -1 for an unbound number.
RunUnbound ==
    /\ cleaned_words_rdd = <<>> /\ stemmed_words_rdd = <<>>
    /\ pending = {}
    /\ total_words = -1 /\ unique_words = -1 /\ stemmed_unique_words = -1
    /\ wordcount_rdd = <<>> /\ stemmed_wordcount_rdd = <<>>
    /\ top_50 = <<>> /\ bottom_50 = <<>>
    /\ top_50_stemmed = <<>> /\ bottom_50_stemmed = <<>>
    /\ reduction = <<>>
    /\ out = <<>>

RunIdle == file_exists = FALSE /\ text_rdd = <<>> /\ RunUnbound

----------------------------------------------------------------------------
(* clean_text applied to every line over a small alphabet *)

MaxLineLen == 5

\* t, o, uppercase T, yo, a comma, a space and a tab
LineChars == {1090, 1086, 1058, 1105, 44, 32, 9}

\* "Privet, mir! 123 Hello", "eto dlya  TOT tot mir", "  rabotat' rabotal  "
SampleLines ==
    { <<1055,1088,1080,1074,1077,1090,44,32,1084,1080,1088,33,32,49,50,51,32,
        72,101,108,108,111>>,
      <<1101,1090,1086,32,1076,1083,1103,32,32,1058,1054,1058,9,1090,1086,1090,
        32,1084,1080,1088>>,
      <<32,32,1088,1072,1073,1086,1090,1072,1090,1100,32,1088,1072,1073,1086,
        1090,1072,1083,32,32>> }

CleanLines == SeqsUpTo(LineChars, MaxLineLen) \cup SampleLines

\* the program's stopword set, no stopwords, and a set that is not the program's
StopSets == {load_russian_stopwords, {}, {<<1086,1086,1086>>, <<1105,1090,1086>>}}

InitClean ==
    /\ pc = "clean_call"
    /\ line \in CleanLines
    /\ stop_words \in StopSets
    /\ cleaned_words = <<>>
    /\ StemIdle /\ RankIdle /\ RunIdle

CallCleanText ==
    /\ pc = "clean_call"
    /\ cleaned_words' = clean_text(line, stop_words)
    /\ pc' = "clean_done"
    /\ UNCHANGED <<line, stop_words, stemVars, rankVars, runVars>>

NextClean == CallCleanText

SpecClean == InitClean /\ [][NextClean]_vars

----------------------------------------------------------------------------
(* simple_russian_stemmer applied to every word over a small alphabet *)

MaxWordLen == 5

\* a, t, soft sign, o, s, l
StemChars == {1072, 1090, 1100, 1086, 1089, 1083}

\* "rabotat'", "rabotala", "mir", "novost'", "gost'"
SampleWords ==
    { <<1088,1072,1073,1086,1090,1072,1090,1100>>,
      <<1088,1072,1073,1086,1090,1072,1083,1072>>,
      <<1084,1080,1088>>,
      <<1085,1086,1074,1086,1089,1090,1100>>,
      <<1075,1086,1089,1090,1100>> }

StemInputs == SeqsUpTo(StemChars, MaxWordLen) \cup SampleWords

InitStem ==
    /\ pc = "stem_call"
    /\ word \in StemInputs
    /\ stemmed = <<>> /\ restemmed = <<>>
    /\ CleanIdle /\ RankIdle /\ RunIdle

CallStemmer ==
    /\ pc = "stem_call"
    /\ stemmed' = simple_russian_stemmer(word)
    /\ pc' = "stem_again"
    /\ UNCHANGED <<word, restemmed, cleanVars, rankVars, runVars>>

CallStemmerAgain ==
    /\ pc = "stem_again"
    /\ restemmed' = simple_russian_stemmer(stemmed)
    /\ pc' = "stem_done"
    /\ UNCHANGED <<word, stemmed, cleanVars, rankVars, runVars>>

NextStem == CallStemmer \/ CallStemmerAgain

SpecStem == InitStem /\ [][NextStem]_vars

----------------------------------------------------------------------------
(* Claims about clean_text (SpecClean) *)

\* C1: every word clean_text returns is longer than 2 characters, consists
\* only of lowercase Cyrillic letters (1072..1103 or 1105) and is not in
\* stop_words; an empty or whitespace-only line returns the empty list.
C1_CleanWords ==
    pc = "clean_done" =>
        /\ \A i \in 1..Len(cleaned_words) :
              /\ Len(cleaned_words[i]) > 2
              /\ \A j \in 1..Len(cleaned_words[i]) :
                    cleaned_words[i][j] \in (1072..1103) \cup {1105}
              /\ cleaned_words[i] \notin stop_words
        /\ (\A j \in 1..Len(line) : IsSpace(line[j])) => cleaned_words = <<>>

\* a line of which some tokens are kept and a stopword is dropped
C1_Witness ==
    /\ pc = "clean_done"
    /\ cleaned_words # <<>>
    /\ \E t \in Range(Split(Lower(line))) : Len(t) > 2 /\ t \in stop_words
    /\ \E j \in 1..Len(line) : line[j] \in 1040..1071

----------------------------------------------------------------------------
(* Claims about simple_russian_stemmer (SpecStem) *)

\* the endings of the table that w ends with and that leave more than 2
\* characters
Candidates(w) ==
    {e \in Range(endings) : EndsWith(w, e) /\ Len(w) - Len(e) > 2}

\* C2: the stemmer removes the longest ending of the table that the word
\* ends with and that leaves more than 2 characters, and returns the word
\* unchanged when there is none; "rabotat'" gives "rabot".
C2_LongestSuffix ==
    pc \in {"stem_again", "stem_done"} =>
        /\ IF Candidates(word) = {}
           THEN stemmed = word
           ELSE \E e \in Candidates(word) :
                    /\ \A f \in Candidates(word) : Len(f) <= Len(e)
                    /\ stemmed \o e = word
        /\ word = <<1088,1072,1073,1086,1090,1072,1090,1100>>
              => stemmed = <<1088,1072,1073,1086,1090>>

\* a word with two applicable endings of different lengths
C2_Witness ==
    /\ pc = "stem_again"
    /\ \E e, f \in Candidates(word) : Len(f) < Len(e)
    /\ stemmed # word

IsPrefix(a, b) == Len(a) <= Len(b) /\ SubSeq(b, 1, Len(a)) = a

\* C8: stemming a stem gives the stem itself or a strictly shorter prefix of
\* it, and a stem is the word itself or a strictly shorter prefix of it.
C8_RestemNeverLonger ==
    pc = "stem_done" =>
        /\ restemmed = stemmed
             \/ (Len(restemmed) < Len(stemmed) /\ IsPrefix(restemmed, stemmed))
        /\ stemmed = word
             \/ (Len(stemmed) < Len(word) /\ IsPrefix(stemmed, word))

\* a word that the second application shortens further
C8_Witness ==
    /\ pc = "stem_done"
    /\ Len(restemmed) < Len(stemmed)
    /\ Len(stemmed) < Len(word)

----------------------------------------------------------------------------
(* The rankings applied to every small table and every small K *)

MaxTableSize == 3

MaxCount == 2

MaxK == 4

\* "a", "ab", "b", "c"
RankWords == {<<97>>, <<97, 98>>, <<98>>, <<99>>}

\* the tables: at most MaxTableSize entries, in any order, no key twice
RankTables ==
    {t \in SeqsUpTo(RankWords \X (1..MaxCount), MaxTableSize) :
        \A i, j \in 1..Len(t) : t[i][1] = t[j][1] => i = j}

InitRank ==
    /\ pc = "rank_top"
    /\ table \in RankTables
    /\ K \in (0..MaxK) \cup {50}
    /\ top_k = <<>> /\ bottom_k = <<>>
    /\ CleanIdle /\ StemIdle /\ RunIdle

CallTop ==
    /\ pc = "rank_top"
    /\ top_k' = TopOf(K, table)
    /\ pc' = "rank_bottom"
    /\ UNCHANGED <<table, K, bottom_k, cleanVars, stemVars, runVars>>

CallBottom ==
    /\ pc = "rank_bottom"
    /\ bottom_k' = BottomOf(K, table)
    /\ pc' = "rank_done"
    /\ UNCHANGED <<table, K, top_k, cleanVars, stemVars, runVars>>

NextRank == CallTop \/ CallBottom

SpecRank == InitRank /\ [][NextRank]_vars

----------------------------------------------------------------------------
(* Claims about the rankings (SpecRank) *)

\* the order (count ascending, word ascending) on table entries
CountThenWordBefore(r, e) ==
    r[2] < e[2] \/ (r[2] = e[2] /\ StrLess(r[1], e[1]))

C6_TopList ==
    pc \in {"rank_bottom", "rank_done"} =>
        /\ Len(top_k) = Min(K, Len(table))
        /\ Range(top_k) \subseteq Range(table)
        /\ \A i, j \in 1..Len(top_k) : top_k[i] = top_k[j] => i = j
        /\ \A i \in 1..(Len(top_k) - 1) : top_k[i][2] >= top_k[i + 1][2]
        /\ \A e \in Range(table) \ Range(top_k) :
              top_k # <<>> => e[2] <= top_k[Len(top_k)][2]
        /\ table = <<>> => top_k = <<>>

\* a table larger than K whose first entry is not its most frequent one
C6_Witness ==
    /\ pc = "rank_bottom"
    /\ 0 < K /\ K < Len(table)
    /\ table[1][2] < table[Len(table)][2]
    /\ Len(top_k) = K

----------------------------------------------------------------------------
(* RussianTextAnalyzer.analyze_text                                        *)
(* One action per block of the method.  The two reduceByKey stages merge   *)
(* the partitions one at a time, in whatever order the engine finishes     *)
(* them.                                                                   *)

\* the 50 of the four takeOrdered calls
TopN == 50

MaxLines == 3

\* "", "mir", "eto dlya", "rabotal rabotala", "Mir, rabotat'!"
FileLines ==
    { <<>>,
      <<1084,1080,1088>>,
      <<1101,1090,1086,32,1076,1083,1103>>,
      <<1088,1072,1073,1086,1090,1072,1083,32,
        1088,1072,1073,1086,1090,1072,1083,1072>>,
      <<1052,1080,1088,44,32,1088,1072,1073,1086,1090,1072,1090,1100,33>> }

\* sc.textFile: the lines of the file in order, cut into three partitions
Partitionings(f) ==
    { <<SubSeq(f, 1, c[1]), SubSeq(f, c[1] + 1, c[2]), SubSeq(f, c[2] + 1, Len(f))>> :
        c \in {d \in (0..Len(f)) \X (0..Len(f)) : d[1] <= d[2]} }

Init ==
    /\ pc = "start"
    /\ file_exists \in BOOLEAN
    /\ text_rdd \in IF file_exists
                    THEN UNION {Partitionings(f) : f \in SeqsUpTo(FileLines, MaxLines)}
                    ELSE {<<>>}
    /\ RunUnbound
    /\ CleanIdle /\ StemIdle /\ RankIdle

callVars == <<cleanVars, stemVars, rankVars>>

\* flatMap(lambda line: clean_text(line, stop_words_broadcast.value)); the
\* broadcast value is self.stop_words, set to load_russian_stopwords() by
\* the constructor and never assigned again
CleanPartition(part) ==
    Flatten([i \in 1..Len(part) |-> clean_text(part[i], load_russian_stopwords)])

\* lines 91-100: the existence test and sc.textFile
OpenFile ==
    /\ pc = "start"
    /\ IF ~file_exists
       THEN /\ out' = Append(out, "ERROR: File not found!")
            /\ pc' = "returned"
       ELSE /\ out' = Append(out, "File loaded")
            /\ pc' = "cleaning"
    /\ UNCHANGED <<file_exists, text_rdd, cleaned_words_rdd, stemmed_words_rdd,
                   pending, total_words, unique_words, stemmed_unique_words,
                   wordcount_rdd, stemmed_wordcount_rdd, top_50, bottom_50,
                   top_50_stemmed, bottom_50_stemmed, reduction, callVars>>

\* the cleaning block without the return on total_words == 0
CleanWordsNoReturn ==
    /\ pc = "cleaning"
    /\ cleaned_words_rdd' = [p \in 1..Len(text_rdd) |-> CleanPartition(text_rdd[p])]
    /\ total_words' = Len(Flatten(cleaned_words_rdd'))
    /\ out' = out \o <<"1. TEXT CLEANING", "Total words after cleaning">>
    /\ pending' = 1..Len(text_rdd)
    /\ pc' = "wordcount"
    /\ UNCHANGED <<file_exists, text_rdd, stemmed_words_rdd,
                   unique_words, stemmed_unique_words,
                   wordcount_rdd, stemmed_wordcount_rdd, top_50, bottom_50,
                   top_50_stemmed, bottom_50_stemmed, reduction, callVars>>

\* lines 105-116: the cleaned words, their number, the return when none
CleanWords ==
    /\ pc = "cleaning"
    /\ cleaned_words_rdd' = [p \in 1..Len(text_rdd) |-> CleanPartition(text_rdd[p])]
    /\ total_words' = Len(Flatten(cleaned_words_rdd'))
    /\ IF total_words' = 0
       THEN /\ out' = out \o <<"1. TEXT CLEANING", "Total words after cleaning",
                                "No words found after cleaning!">>
            /\ pending' = pending
            /\ pc' = "returned"
       ELSE /\ out' = out \o <<"1. TEXT CLEANING", "Total words after cleaning">>
            /\ pending' = 1..Len(text_rdd)
            /\ pc' = "wordcount"
    /\ UNCHANGED <<file_exists, text_rdd, stemmed_words_rdd,
                   unique_words, stemmed_unique_words,
                   wordcount_rdd, stemmed_wordcount_rdd, top_50, bottom_50,
                   top_50_stemmed, bottom_50_stemmed, reduction, callVars>>

\* lines 125-126: reduceByKey merges the partial counts of partition p
ReduceWordcount(p) ==
    /\ pc = "wordcount"
    /\ p \in pending
    /\ wordcount_rdd' = ReducePartition(wordcount_rdd, cleaned_words_rdd[p])
    /\ pending' = pending \ {p}
    /\ UNCHANGED <<pc, file_exists, text_rdd, cleaned_words_rdd, stemmed_words_rdd,
                   total_words, unique_words, stemmed_unique_words,
                   stemmed_wordcount_rdd, top_50, bottom_50,
                   top_50_stemmed, bottom_50_stemmed, reduction, out, callVars>>

\* lines 121-129: wordcount_rdd.count()
CountUnique ==
    /\ pc = "wordcount"
    /\ pending = {}
    /\ unique_words' = Len(wordcount_rdd)
    /\ out' = out \o <<"2. WORDCOUNT DEVELOPMENT", "Unique words">>
    /\ pc' = "top50"
    /\ UNCHANGED <<file_exists, text_rdd, cleaned_words_rdd, stemmed_words_rdd,
                   pending, total_words, stemmed_unique_words,
                   wordcount_rdd, stemmed_wordcount_rdd, top_50, bottom_50,
                   top_50_stemmed, bottom_50_stemmed, reduction, callVars>>

\* lines 134-144
Top50 ==
    /\ pc = "top50"
    /\ top_50' = TopOf(TopN, wordcount_rdd)
    /\ out' = Append(out, "3. TOP-50 MOST COMMON WORDS")
    /\ pc' = "bottom50"
    /\ UNCHANGED <<file_exists, text_rdd, cleaned_words_rdd, stemmed_words_rdd,
                   pending, total_words, unique_words, stemmed_unique_words,
                   wordcount_rdd, stemmed_wordcount_rdd, bottom_50,
                   top_50_stemmed, bottom_50_stemmed, reduction, callVars>>

\* lines 146-168
Bottom50 ==
    /\ pc = "bottom50"
    /\ bottom_50' = BottomOf(TopN, wordcount_rdd)
    /\ out' = out \o <<"3. TOP-50 LEAST COMMON WORDS", "Words appearing only once">>
    /\ pc' = "stemming"
    /\ UNCHANGED <<file_exists, text_rdd, cleaned_words_rdd, stemmed_words_rdd,
                   pending, total_words, unique_words, stemmed_unique_words,
                   wordcount_rdd, stemmed_wordcount_rdd, top_50,
                   top_50_stemmed, bottom_50_stemmed, reduction, callVars>>

\* lines 173-177: cleaned_words_rdd.map(simple_russian_stemmer)
StemWords ==
    /\ pc = "stemming"
    /\ stemmed_words_rdd' =
          [p \in 1..Len(cleaned_words_rdd) |->
              [i \in 1..Len(cleaned_words_rdd[p]) |->
                  simple_russian_stemmer(cleaned_words_rdd[p][i])]]
    /\ out' = Append(out, "4. STEMMING APPLICATION")
    /\ pending' = 1..Len(cleaned_words_rdd)
    /\ pc' = "stemmed_wordcount"
    /\ UNCHANGED <<file_exists, text_rdd, cleaned_words_rdd,
                   total_words, unique_words, stemmed_unique_words,
                   wordcount_rdd, stemmed_wordcount_rdd, top_50, bottom_50,
                   top_50_stemmed, bottom_50_stemmed, reduction, callVars>>

\* lines 178-179: reduceByKey merges the partial counts of partition p
ReduceStemmedWordcount(p) ==
    /\ pc = "stemmed_wordcount"
    /\ p \in pending
    /\ stemmed_wordcount_rdd' =
          ReducePartition(stemmed_wordcount_rdd, stemmed_words_rdd[p])
    /\ pending' = pending \ {p}
    /\ UNCHANGED <<pc, file_exists, text_rdd, cleaned_words_rdd, stemmed_words_rdd,
                   total_words, unique_words, stemmed_unique_words,
                   wordcount_rdd, top_50, bottom_50,
                   top_50_stemmed, bottom_50_stemmed, reduction, out, callVars>>

\* stemmed_words_rdd.count() taken in place of stemmed_wordcount_rdd.count()
CountStemmedWords ==
    /\ pc = "stemmed_wordcount"
    /\ pending = {}
    /\ stemmed_unique_words' = Len(Flatten(stemmed_words_rdd))
    /\ out' = Append(out, "Unique words after stemming")
    /\ pc' = "reduction"
    /\ UNCHANGED <<file_exists, text_rdd, cleaned_words_rdd, stemmed_words_rdd,
                   pending, total_words, unique_words,
                   wordcount_rdd, stemmed_wordcount_rdd, top_50, bottom_50,
                   top_50_stemmed, bottom_50_stemmed, reduction, callVars>>

\* lines 181-182: stemmed_wordcount_rdd.count()
CountStemmedUnique ==
    /\ pc = "stemmed_wordcount"
    /\ pending = {}
    /\ stemmed_unique_words' = Len(stemmed_wordcount_rdd)
    /\ out' = Append(out, "Unique words after stemming")
    /\ pc' = "reduction"
    /\ UNCHANGED <<file_exists, text_rdd, cleaned_words_rdd, stemmed_words_rdd,
                   pending, total_words, unique_words,
                   wordcount_rdd, stemmed_wordcount_rdd, top_50, bottom_50,
                   top_50_stemmed, bottom_50_stemmed, reduction, callVars>>

\* the reduction left for the summary block, after the stemmed rankings
ComputeReductionLate ==
    /\ pc = "reduction"
    /\ pc' = "top50_stemmed"
    /\ UNCHANGED <<file_exists, text_rdd, cleaned_words_rdd, stemmed_words_rdd,
                   pending, total_words, unique_words, stemmed_unique_words,
                   wordcount_rdd, stemmed_wordcount_rdd, top_50, bottom_50,
                   top_50_stemmed, bottom_50_stemmed, reduction, out, callVars>>

\* lines 184-185: ((unique_words - stemmed_unique_words) / unique_words) * 100,
\* kept as <<numerator, denominator>>; dividing by zero raises, and main
\* reports the exception
ComputeReduction ==
    /\ pc = "reduction"
    /\ IF unique_words = 0
       THEN /\ reduction' = reduction
            /\ out' = Append(out, "Error during analysis")
            /\ pc' = "raised"
       ELSE /\ reduction' = <<(unique_words - stemmed_unique_words) * 100, unique_words>>
            /\ out' = Append(out, "Vocabulary reduction")
            /\ pc' = "top50_stemmed"
    /\ UNCHANGED <<file_exists, text_rdd, cleaned_words_rdd, stemmed_words_rdd,
                   pending, total_words, unique_words, stemmed_unique_words,
                   wordcount_rdd, stemmed_wordcount_rdd, top_50, bottom_50,
                   top_50_stemmed, bottom_50_stemmed, callVars>>

\* lines 190-200
Top50Stemmed ==
    /\ pc = "top50_stemmed"
    /\ top_50_stemmed' = TopOf(TopN, stemmed_wordcount_rdd)
    /\ out' = Append(out, "5. TOP-50 MOST COMMON WORDS AFTER STEMMING")
    /\ pc' = "bottom50_stemmed"
    /\ UNCHANGED <<file_exists, text_rdd, cleaned_words_rdd, stemmed_words_rdd,
                   pending, total_words, unique_words, stemmed_unique_words,
                   wordcount_rdd, stemmed_wordcount_rdd, top_50, bottom_50,
                   bottom_50_stemmed, reduction, callVars>>

\* lines 202-222
Bottom50Stemmed ==
    /\ pc = "bottom50_stemmed"
    /\ bottom_50_stemmed' = BottomOf(TopN, stemmed_wordcount_rdd)
    /\ out' = out \o <<"5. TOP-50 LEAST COMMON WORDS AFTER STEMMING",
                        "Words appearing only once after stemming">>
    /\ pc' = "summary"
    /\ UNCHANGED <<file_exists, text_rdd, cleaned_words_rdd, stemmed_words_rdd,
                   pending, total_words, unique_words, stemmed_unique_words,
                   wordcount_rdd, stemmed_wordcount_rdd, top_50, bottom_50,
                   top_50_stemmed, reduction, callVars>>

\* lines 227-245
Summary ==
    /\ pc = "summary"
    /\ out' = out \o <<"ANALYSIS SUMMARY", "Vocabulary reduction after stemming",
                        "Analysis completed successfully!">>
    /\ pc' = "done"
    /\ UNCHANGED <<file_exists, text_rdd, cleaned_words_rdd, stemmed_words_rdd,
                   pending, total_words, unique_words, stemmed_unique_words,
                   wordcount_rdd, stemmed_wordcount_rdd, top_50, bottom_50,
                   top_50_stemmed, bottom_50_stemmed, reduction, callVars>>

Next ==
    \/ OpenFile
    \/ CleanWords
    \/ \E p \in pending : ReduceWordcount(p)
    \/ CountUnique
    \/ Top50
    \/ Bottom50
    \/ StemWords
    \/ \E p \in pending : ReduceStemmedWordcount(p)
    \/ CountStemmedUnique
    \/ ComputeReduction
    \/ Top50Stemmed
    \/ Bottom50Stemmed
    \/ Summary

Spec == Init /\ [][Next]_vars

----------------------------------------------------------------------------
(* Claims about the frequency tables (Spec) *)

RECURSIVE SumCounts(_)
SumCounts(t) == IF t = <<>> THEN 0 ELSE Head(t)[2] + SumCounts(Tail(t))

\* t has every distinct word of ws as a key exactly once, positive integer
\* counts, and counts that add up to the length of ws
IsFrequencyTableOf(t, ws) ==
    /\ \A i, j \in 1..Len(t) : t[i][1] = t[j][1] => i = j
    /\ {t[i][1] : i \in 1..Len(t)} = Range(ws)
    /\ \A i \in 1..Len(t) : t[i][2] \in Nat /\ t[i][2] > 0
    /\ SumCounts(t) = Len(ws)

\* C3: the table built by mapping each word to (word, 1) and summing by key
\* has each distinct word as a key exactly once, positive integer counts,
\* and counts whose sum is the number of words; for the words and for the
\* stemmed words.
C3_FrequencyTable ==
    /\ unique_words >= 0 =>
          IsFrequencyTableOf(wordcount_rdd, Flatten(cleaned_words_rdd))
    /\ stemmed_unique_words >= 0 =>
          IsFrequencyTableOf(stemmed_wordcount_rdd, Flatten(stemmed_words_rdd))

\* a word that occurs in two partitions, counted beside another word
C3_Witness ==
    /\ unique_words >= 2
    /\ \E p, q \in 1..Len(cleaned_words_rdd) :
          /\ p # q
          /\ Range(cleaned_words_rdd[p]) \cap Range(cleaned_words_rdd[q]) # {}
    /\ \E i \in 1..Len(wordcount_rdd) : wordcount_rdd[i][2] >= 2

\* the table of the schedule that merges the partitions in their order
RECURSIVE ReduceInOrder(_, _)
ReduceInOrder(t, parts) ==
    IF parts = <<>> THEN t
    ELSE ReduceInOrder(ReducePartition(t, Head(parts)), Tail(parts))

\* C4: the counts and the top-50 and bottom-50 lists of a run are those of
\* every other schedule over the same input, so they are those of the
\* schedule that merges the partitions in their order.
C4_ScheduleIndependent ==
    /\ unique_words >= 0 =>
          Range(wordcount_rdd) = Range(ReduceInOrder(<<>>, cleaned_words_rdd))
    /\ top_50 # <<>> =>
          top_50 = TopOf(TopN, ReduceInOrder(<<>>, cleaned_words_rdd))
    /\ bottom_50 # <<>> =>
          bottom_50 = BottomOf(TopN, ReduceInOrder(<<>>, cleaned_words_rdd))
    /\ stemmed_unique_words >= 0 =>
          Range(stemmed_wordcount_rdd) = Range(ReduceInOrder(<<>>, stemmed_words_rdd))
    /\ top_50_stemmed # <<>> =>
          top_50_stemmed = TopOf(TopN, ReduceInOrder(<<>>, stemmed_words_rdd))
    /\ bottom_50_stemmed # <<>> =>
          bottom_50_stemmed = BottomOf(TopN, ReduceInOrder(<<>>, stemmed_words_rdd))

\* What of C4 does hold: the counts and the bottom-50 lists are those of
\* the in-order schedule, and so are the counts along the top-50 lists.
CountsOf(list) == [i \in 1..Len(list) |-> list[i][2]]

C4_CountsAndBottomIndependent ==
    /\ unique_words >= 0 =>
          Range(wordcount_rdd) = Range(ReduceInOrder(<<>>, cleaned_words_rdd))
    /\ top_50 # <<>> =>
          CountsOf(top_50) = CountsOf(TopOf(TopN, ReduceInOrder(<<>>, cleaned_words_rdd)))
    /\ bottom_50 # <<>> =>
          bottom_50 = BottomOf(TopN, ReduceInOrder(<<>>, cleaned_words_rdd))
    /\ stemmed_unique_words >= 0 =>
          Range(stemmed_wordcount_rdd) = Range(ReduceInOrder(<<>>, stemmed_words_rdd))
    /\ top_50_stemmed # <<>> =>
          CountsOf(top_50_stemmed) =
              CountsOf(TopOf(TopN, ReduceInOrder(<<>>, stemmed_words_rdd)))
    /\ bottom_50_stemmed # <<>> =>
          bottom_50_stemmed = BottomOf(TopN, ReduceInOrder(<<>>, stemmed_words_rdd))

----------------------------------------------------------------------------
(* Claims about the driver (Spec) *)

\* nothing after the cleaning stage has been computed
LaterStagesUnbound ==
    /\ stemmed_words_rdd = <<>>
    /\ unique_words = -1 /\ stemmed_unique_words = -1
    /\ wordcount_rdd = <<>> /\ stemmed_wordcount_rdd = <<>>
    /\ top_50 = <<>> /\ bottom_50 = <<>>
    /\ top_50_stemmed = <<>> /\ bottom_50_stemmed = <<>>
    /\ reduction = <<>>

\* C7: when the file does not exist, or no word survives cleaning,
\* analyze_text reports the condition and returns without raising; no
\* count, ranking, stemming or reduction is computed and nothing is printed
\* after the report of the condition.
C7_EarlyReturn ==
    /\ pc # "raised"
    /\ ~file_exists => pc \in {"start", "returned"}
    /\ (pc = "returned" /\ ~file_exists) =>
          /\ out = <<"ERROR: File not found!">>
          /\ cleaned_words_rdd = <<>> /\ total_words = -1
          /\ LaterStagesUnbound
    /\ total_words = 0 =>
          /\ pc = "returned"
          /\ out = <<"File loaded", "1. TEXT CLEANING", "Total words after cleaning",
                     "No words found after cleaning!">>
          /\ LaterStagesUnbound
    /\ pc = "returned" => (~file_exists \/ total_words = 0)

\* a file with a line of stopwords only, after the return
C7_Witness ==
    /\ pc = "returned"
    /\ file_exists
    /\ total_words = 0
    /\ \E l \in Range(Flatten(text_rdd)) : Strip(l) # <<>>

\* what a successful run prints, in order
SuccessfulReport ==
    <<"File loaded",
      "1. TEXT CLEANING", "Total words after cleaning",
      "2. WORDCOUNT DEVELOPMENT", "Unique words",
      "3. TOP-50 MOST COMMON WORDS",
      "3. TOP-50 LEAST COMMON WORDS", "Words appearing only once",
      "4. STEMMING APPLICATION", "Unique words after stemming",
      "Vocabulary reduction",
      "5. TOP-50 MOST COMMON WORDS AFTER STEMMING",
      "5. TOP-50 LEAST COMMON WORDS AFTER STEMMING",
      "Words appearing only once after stemming",
      "ANALYSIS SUMMARY", "Vocabulary reduction after stemming",
      "Analysis completed successfully!">>

\* the stages up to the count of the stemmed words, each after the one
\* before it, and no partition left to merge outside the two counts
StagesUpToStemmedCount ==
    /\ stemmed_unique_words >= 0 => stemmed_words_rdd # <<>>
    /\ stemmed_words_rdd # <<>> => bottom_50 # <<>>
    /\ bottom_50 # <<>> => top_50 # <<>>
    /\ top_50 # <<>> => unique_words >= 0
    /\ unique_words >= 0 => total_words > 0
    /\ total_words >= 0 => (file_exists /\ out # <<>> /\ out[1] = "File loaded")
    /\ pending # {} => pc \in {"wordcount", "stemmed_wordcount"}

\* C9 as stated: load, clean, count, rank, stem, count stemmed, rank
\* stemmed, reduction, summary; the reduction is computed and reported only
\* after the top/bottom-50 ranking of the stemmed table.
C9_ReductionAfterStemmedRanking ==
    /\ StagesUpToStemmedCount
    /\ top_50_stemmed # <<>> => stemmed_unique_words >= 0
    /\ bottom_50_stemmed # <<>> => top_50_stemmed # <<>>
    /\ reduction # <<>> => bottom_50_stemmed # <<>>
    /\ "Vocabulary reduction" \in Range(out) =>
          "Words appearing only once after stemming" \in Range(out)
    /\ pc = "done" => reduction # <<>>

\* C9 as amended: load, clean, count, rank, stem, count stemmed, reduction,
\* rank stemmed, summary; the reduction is computed and reported before
\* the ranking of the stemmed table, and the report of a run is a prefix of
\* the successful report, all of it when the run is done.
C9_StageOrder ==
    /\ StagesUpToStemmedCount
    /\ reduction # <<>> => stemmed_unique_words >= 0
    /\ top_50_stemmed # <<>> => reduction # <<>>
    /\ bottom_50_stemmed # <<>> => top_50_stemmed # <<>>
    /\ pc = "done" => (bottom_50_stemmed # <<>> /\ out = SuccessfulReport)
    /\ pc \notin {"returned", "raised"} => IsPrefix(out, SuccessfulReport)
    /\ "5. TOP-50 MOST COMMON WORDS AFTER STEMMING" \in Range(out) =>
          "Vocabulary reduction" \in Range(out)

\* a finished successful run
C9_Witness ==
    /\ pc = "done"
    /\ out = SuccessfulReport
    /\ reduction # <<>>
    /\ bottom_50_stemmed # <<>>

\* C10: when analyze_text reaches the reduction,
\* 1 <= stemmed_unique_words <= unique_words <= total_words, the division
\* does not divide by zero, and the percentage is at least 0 and below 100.
C10_ReductionBounds ==
    /\ pc # "raised"
    /\ (pc = "reduction" \/ reduction # <<>>) =>
          /\ 1 <= stemmed_unique_words
          /\ stemmed_unique_words <= unique_words
          /\ unique_words <= total_words
    /\ reduction # <<>> =>
          /\ reduction[2] # 0
          /\ 0 <= reduction[1]
          /\ reduction[1] < 100 * reduction[2]

\* a run in which stemming merges two words and a word repeats
C10_Witness ==
    /\ reduction # <<>>
    /\ stemmed_unique_words < unique_words
    /\ unique_words < total_words
    /\ reduction[1] > 0

====
